---- MODULE Spec2Model ----
(***************************************************************************)
(* Model of collect_anomaly_defense_coverage.py: the report run            *)
(* (generate_security_and_resilience_report), the record loader            *)
(* (load_data_from_simulated_file), the record normalizer                  *)
(* (parse_and_clean_raw_data) and the goal evaluation.                     *)
(*                                                                         *)
(* Numbers.  A rate is the Python float successful/total.  It is kept here *)
(* as the reduced fraction num/den: for the totals of this model (far      *)
(* below 2^50) two quotients are the same float exactly when they are the  *)
(* same fraction, and a quotient compares with a literal such as 0.90 the  *)
(* way the fractions compare, because float division is correctly rounded  *)
(* and the literal is the correctly rounded 9/10.                          *)
(*                                                                         *)
(* Dictionaries are functions from keys to values; {} is EmptyDict.        *)
(* Console output is not state, except the overall conclusion, which is    *)
(* kept in the run's frame.                                                *)
(***************************************************************************)
EXTENDS Integers, Sequences, FiniteSets, TLC

\* ---------------------------------------------------------------- bounds
\* total_test_cases ranges over -1 and the multiples k * TotalStep, k <= MaxTotalSteps
MaxTotalSteps == 1
\* successful_cases ranges over -1 and total - MaxMiss .. total + 1
MaxMiss == 2
\* a direct call of the normalizer gets an event_logs of at most MaxLogs entries
MaxLogs == 2
\* critical_flags ranges over 0 .. MaxFlags (the simulated source draws 0 .. 5)
MaxFlags == 1

\* ------------------------------------------------------ program constants
ANOMALY == "Anomaly Detection Response Rate"
MALICIOUS == "Malicious Image Detection Rate"
BACKUP == "Data Backup and Recovery Coverage"
CONFIG_CHECK == "Configuration Check Log"

\* the keys of FILE_PATHS, in insertion order, without the compliance source
MetricOrder == <<ANOMALY, MALICIOUS, BACKUP>>
MetricNames == {MetricOrder[i] : i \in DOMAIN MetricOrder}

\* expected_value of each goal, in percent (0.90, 0.95, 0.90)
AnomalyExpectedPct == 90
MaliciousExpectedPct == 95
BackupExpectedPct == 90

\* 0.001 = 1 / ValidationOffsetDen, the offset added before math.sqrt
ValidationOffsetDen == 1000

LogStatuses == {"SUCCESS", "TIMEOUT", "SKIP", "FAIL"}
ComplianceLevels == {"HIGH", "MEDIUM", "LOW"}

\* ---------------------------------------------------------------- numbers
RECURSIVE GCD(_, _)
GCD(a, b) == IF b = 0 THEN a ELSE GCD(b, a % b)

Abs(n) == IF n < 0 THEN -n ELSE n

\* the float n / d (d > 0), as a reduced fraction
Frac(n, d) ==
    LET g == GCD(Abs(n), d)
    IN  [num |-> n \div g, den |-> d \div g]

\* the float 0.0
ZeroRate == [num |-> 0, den |-> 1]

\* a >= b on floats
RateGE(a, b) == a.num * b.den >= b.num * a.den

EmptyDict == [k \in {} |-> 0]

\* the entries of sequence s whose value is in set S, in order
RECURSIVE Restrict(_, _)
Restrict(s, S) ==
    IF s = <<>> THEN <<>>
    ELSE IF Head(s) \in S THEN <<Head(s)>> \o Restrict(Tail(s), S)
    ELSE Restrict(Tail(s), S)

\* ----------------------------------------------------------- configuration
ExpectedPct(name) ==
    CASE name = ANOMALY -> AnomalyExpectedPct
      [] name = MALICIOUS -> MaliciousExpectedPct
      [] OTHER -> BackupExpectedPct

\* PERFORMANCE_GOALS_DICT[name]["expected_value"]
expected_value(name) == Frac(ExpectedPct(name), 100)

\* the least total at which every goal's threshold is a whole number of successes
TotalStep ==
    LET fits(n) == \A m \in MetricNames : (ExpectedPct(m) * n) % 100 = 0
    IN  CHOOSE n \in 1..100 : fits(n) /\ \A k \in 1..(n - 1) : ~fits(k)

\* ------------------------------------------------------------ source content
\* What a source location serves.  The simulated source of the program draws
\* its content at random; it is the test double of the source interface, so
\* the content is an input here: text that does not parse, or a JSON object
\* with or without the timestamp field.
SuccessValues(t) == {-1} \cup {s \in (t - MaxMiss)..(t + 1) : s >= 0}

\* the <<total_test_cases, successful_cases>> pairs with the total in Totals
Counts(Totals) == UNION {{<<t, s>> : s \in SuccessValues(t)} : t \in Totals}

\* event_logs: absent, or a sequence of entries, each entry kept as its status
NoLogs == [present |-> FALSE, entries |-> <<>>]
Logs(entries) == [present |-> TRUE, entries |-> entries]

Timestamp(has) == IF has THEN ("timestamp" :> 0) ELSE EmptyDict

\* the JSON object of a metric record
MetricRecord(t, s, l, ts) ==
    ("total_test_cases" :> t) @@ ("successful_cases" :> s)
    @@ (IF l.present THEN ("event_logs" :> l.entries) ELSE EmptyDict)
    @@ Timestamp(ts)

Unparseable == [parses |-> FALSE, data |-> EmptyDict]

TotalValues == {-1} \cup {k * TotalStep : k \in 0..MaxTotalSteps}

\* what a metric source serves in a report run; its event_logs, which only a
\* printed count depends on, are absent, empty or one skipped entry
RunLogs == {NoLogs, Logs(<<>>), Logs(<<"SKIP">>)}

MetricFileContents ==
    {Unparseable}
    \cup {[parses |-> TRUE, data |-> MetricRecord(c[1], c[2], l, ts)] :
            c \in Counts(TotalValues), l \in RunLogs, ts \in BOOLEAN}

ComplianceFileContents ==
    {Unparseable}
    \cup {[parses |-> TRUE,
           data |-> ("compliance_status" :> c) @@ ("critical_flags" :> n)
                    @@ Timestamp(ts)] :
            c \in ComplianceLevels, n \in 0..MaxFlags, ts \in BOOLEAN}

\* ------------------------------------------------------------------ loader
\* the loader without its check of the timestamp field
load_without_timestamp_check(content) ==
    IF ~content.parses THEN EmptyDict ELSE content.data

\* load_data_from_simulated_file, from the content the source serves: the
\* parsed object, or {} when json.loads raises or the timestamp is missing
\* (both raised inside the try block and caught).
load_data_from_simulated_file(content) ==
    IF ~content.parses THEN EmptyDict
    ELSE IF "timestamp" \notin DOMAIN content.data THEN EmptyDict
    ELSE content.data

\* -------------------------------------------------------------- normalizer
\* execute_complex_validation_function: returns its input, after math.sqrt of
\* input + 0.001, which raises ValueError (math domain error) below zero.
\* math.sin is total and math.exp of a value in [-1, 1] does not overflow.
execute_complex_validation_function(input_value) ==
    IF input_value.num * ValidationOffsetDen + input_value.den < 0
    THEN [raised |-> "ValueError", value |-> input_value]
    ELSE [raised |-> "none", value |-> input_value]

\* the {"total": 0, "success": 0, "rate": 0.0} result
ZeroMetric == [total |-> 0, success |-> 0, rate |-> ZeroRate]

\* sum(1 for log in raw_data.get('event_logs', []) if log['status'] == 'SKIP')
skipped_logs(raw_data) ==
    IF "event_logs" \in DOMAIN raw_data
    THEN Cardinality({i \in DOMAIN raw_data["event_logs"] :
                        raw_data["event_logs"][i] = "SKIP"})
    ELSE 0

\* the normalizer with a guard that zeroes the rate only and keeps the reported success
parse_keeping_reported_success(raw_data) ==
    IF raw_data = EmptyDict
    THEN [raised |-> "none", value |-> ZeroMetric, divided |-> FALSE, skipped |-> 0]
    ELSE IF raw_data["total_test_cases"] <= 0
    THEN [raised |-> "none",
          value |-> [total |-> 0, success |-> raw_data["successful_cases"], rate |-> ZeroRate],
          divided |-> FALSE, skipped |-> skipped_logs(raw_data)]
    ELSE LET checked == execute_complex_validation_function(
                            Frac(raw_data["successful_cases"], raw_data["total_test_cases"]))
         IN  [raised |-> checked.raised,
              value |-> [total |-> raw_data["total_test_cases"],
                         success |-> raw_data["successful_cases"],
                         rate |-> checked.value],
              divided |-> TRUE, skipped |-> skipped_logs(raw_data)]

\* the normalizer with the skipped event_logs taken out of the denominator
parse_recounting_total(raw_data) ==
    IF raw_data = EmptyDict
    THEN [raised |-> "none", value |-> ZeroMetric, divided |-> FALSE, skipped |-> 0]
    ELSE LET counted == raw_data["total_test_cases"] - skipped_logs(raw_data)
         IN  IF counted <= 0
             THEN [raised |-> "none", value |-> ZeroMetric, divided |-> FALSE,
                   skipped |-> skipped_logs(raw_data)]
             ELSE LET checked == execute_complex_validation_function(
                                     Frac(raw_data["successful_cases"], counted))
                  IN  [raised |-> checked.raised,
                       value |-> [total |-> counted,
                                  success |-> raw_data["successful_cases"],
                                  rate |-> checked.value],
                       divided |-> TRUE, skipped |-> skipped_logs(raw_data)]

\* parse_and_clean_raw_data.  raised: the exception that leaves the function
\* ("none" when it returns); value: the dictionary returned; divided: whether
\* the division of line 101 was executed; skipped: the count that is printed.
parse_and_clean_raw_data(raw_data) ==
    IF raw_data = EmptyDict
    THEN [raised |-> "none", value |-> ZeroMetric, divided |-> FALSE, skipped |-> 0]
    ELSE IF "total_test_cases" \notin DOMAIN raw_data
    THEN [raised |-> "KeyError", value |-> ZeroMetric, divided |-> FALSE,
          skipped |-> skipped_logs(raw_data)]
    ELSE IF raw_data["total_test_cases"] <= 0
    THEN [raised |-> "none", value |-> ZeroMetric, divided |-> FALSE,
          skipped |-> skipped_logs(raw_data)]
    ELSE LET precise_rate == Frac(raw_data["successful_cases"], raw_data["total_test_cases"])
             checked == execute_complex_validation_function(precise_rate)
         IN  [raised |-> checked.raised,
              value |-> [total |-> raw_data["total_test_cases"],
                         success |-> raw_data["successful_cases"],
                         rate |-> checked.value],
              divided |-> TRUE,
              skipped |-> skipped_logs(raw_data)]

\* ------------------------------------------------------------------- state
\* frame[r]: the local variables of run r of generate_security_and_resilience_report
\*   pc                      where the run stands: "check", "ingest", "evaluate",
\*                           "conclude", "done", or "aborted" (an exception left it)
\*   compliance_data, processed_metric_data, summary_table_data,
\*   calculation_table_data  the locals of those names
\*   conclusion              what the overall conclusion printed
\*   error                   the exception that aborted the run
\*   served, loads           history: the compliance_status of the content the
\*                           compliance source served ("" when it did not parse),
\*                           and for each metric loaded whether its content was
\*                           unusable and whether the loader returned {}
\* FILE_PATHS, PERFORMANCE_GOALS_DICT: the module-level configuration
\* norm_args, norm_results: the arguments and results of direct calls of
\*   parse_and_clean_raw_data (two records that differ at most in event_logs)
VARIABLES frame, FILE_PATHS, PERFORMANCE_GOALS_DICT, norm_args, norm_results

vars == <<frame, FILE_PATHS, PERFORMANCE_GOALS_DICT, norm_args, norm_results>>

NoError == [kind |-> "none", line |-> 0, key |-> ""]
NoConclusion == [printed |-> FALSE, all_metrics_passed |-> FALSE, compliance_status |-> ""]

InitFrame ==
    [pc |-> "check",
     compliance_data |-> EmptyDict,
     processed_metric_data |-> EmptyDict,
     summary_table_data |-> <<>>,
     calculation_table_data |-> <<>>,
     conclusion |-> NoConclusion,
     error |-> NoError,
     served |-> "",
     loads |-> EmptyDict]

\* the configuration the program ships with
ShippedPaths ==
    (ANOMALY :> "config/test_data/anomaly_test_runs.json")
    @@ (MALICIOUS :> "config/test_data/malicious_image_stats.json")
    @@ (BACKUP :> "config/test_data/backup_coverage_log.json")
    @@ (CONFIG_CHECK :> "config/system/check_compliance_status.json")

ShippedGoals == [g \in MetricNames |-> expected_value(g)]

\* the metric sources, in the order the ingestion loop visits them
SourceOrder == Restrict(MetricOrder, DOMAIN FILE_PATHS)

\* the goals, in the order the evaluation loop visits them
GoalOrder == Restrict(MetricOrder, DOMAIN PERFORMANCE_GOALS_DICT)

\* the keys of a processed_metric_data, in insertion order
ProcessedOrder(processed) == Restrict(MetricOrder, DOMAIN processed)

\* where the run continues once n metrics are ingested
AfterIngest(n) ==
    IF n < Len(SourceOrder) THEN "ingest"
    ELSE IF GoalOrder # <<>> THEN "evaluate"
    ELSE "conclude"

\* ---------------------------------------------------------------- the run
\* lines 144-147: the dependency check
CheckStep(f, content) ==
    [f EXCEPT !.compliance_data = load_data_from_simulated_file(content),
              !.served = IF content.parses THEN content.data["compliance_status"] ELSE "",
              !.pc = AfterIngest(0)]

\* lines 152-160: one iteration of the ingestion loop, on what the source serves
IngestStep(f, content) ==
    LET n == Cardinality(DOMAIN f.processed_metric_data)
        metric_name == SourceOrder[n + 1]
        raw_data == load_data_from_simulated_file(content)
        processed_data == parse_and_clean_raw_data(raw_data)
        load == [unusable |-> ~content.parses \/ "timestamp" \notin DOMAIN content.data,
                 empty |-> raw_data = EmptyDict]
    IN  IF processed_data.raised # "none"
        THEN [f EXCEPT !.loads = @ @@ (metric_name :> load),
                       !.error = [kind |-> processed_data.raised, line |-> 159,
                                  key |-> metric_name],
                       !.pc = "aborted"]
        ELSE [f EXCEPT !.loads = @ @@ (metric_name :> load),
                       !.processed_metric_data = @ @@ (metric_name :> processed_data.value),
                       !.pc = AfterIngest(n + 1)]

\* the comparison of line 183 with a strict >
Status_strict(actual_rate, expected) ==
    IF RateGE(actual_rate, expected) /\ ~RateGE(expected, actual_rate) THEN "PASS" ELSE "FAIL"

\* line 183
Status(actual_rate, expected) == IF RateGE(actual_rate, expected) THEN "PASS" ELSE "FAIL"

\* the loop body with processed_metric_data.get(key, zero metric) for the lookup
EvaluateGoalStep_default(f) ==
    LET n == Len(f.summary_table_data)
        key == GoalOrder[n + 1]
        actual_data == IF key \in DOMAIN f.processed_metric_data
                       THEN f.processed_metric_data[key] ELSE ZeroMetric
        expected == PERFORMANCE_GOALS_DICT[key]
    IN  [f EXCEPT !.summary_table_data =
                      Append(@, [key |-> key, expected |-> expected,
                                 actual |-> actual_data.rate,
                                 status |-> Status(actual_data.rate, expected)]),
                  !.calculation_table_data =
                      Append(@, [key |-> key, success |-> actual_data.success,
                                 total |-> actual_data.total, rate |-> actual_data.rate]),
                  !.pc = IF n + 1 < Len(GoalOrder) THEN "evaluate" ELSE "conclude"]

\* lines 178-197: one iteration of the evaluation loop
EvaluateGoalStep(f) ==
    LET n == Len(f.summary_table_data)
        key == GoalOrder[n + 1]
    IN  IF key \notin DOMAIN f.processed_metric_data
        THEN [f EXCEPT !.error = [kind |-> "KeyError", line |-> 179, key |-> key],
                       !.pc = "aborted"]
        ELSE LET actual_data == f.processed_metric_data[key]
                 expected == PERFORMANCE_GOALS_DICT[key]
             IN  [f EXCEPT !.summary_table_data =
                               Append(@, [key |-> key, expected |-> expected,
                                          actual |-> actual_data.rate,
                                          status |-> Status(actual_data.rate, expected)]),
                           !.calculation_table_data =
                               Append(@, [key |-> key, success |-> actual_data.success,
                                          total |-> actual_data.total,
                                          rate |-> actual_data.rate]),
                           !.pc = IF n + 1 < Len(GoalOrder) THEN "evaluate" ELSE "conclude"]

\* line 229: all(processed[key]['rate'] >= GOALS[key]['expected_value'] for key in
\* processed), which stops at the first false element; raised names the key
\* whose goal lookup raises KeyError
RECURSIVE all_metrics_passed(_, _)
all_metrics_passed(keys, processed) ==
    IF keys = <<>> THEN [raised |-> "", value |-> TRUE]
    ELSE IF Head(keys) \notin DOMAIN PERFORMANCE_GOALS_DICT
    THEN [raised |-> Head(keys), value |-> FALSE]
    ELSE IF ~RateGE(processed[Head(keys)].rate, PERFORMANCE_GOALS_DICT[Head(keys)])
    THEN [raised |-> "", value |-> FALSE]
    ELSE all_metrics_passed(Tail(keys), processed)

\* compliance_data.get('compliance_status', 'N/A')
RestatedCompliance(compliance_data) ==
    IF "compliance_status" \in DOMAIN compliance_data
    THEN compliance_data["compliance_status"]
    ELSE "N/A"

\* the conclusion with the overall verdict gated on a compliance status other than LOW
ConcludeStep_gated(f) ==
    LET passed == all_metrics_passed(ProcessedOrder(f.processed_metric_data),
                                     f.processed_metric_data)
    IN  IF passed.raised # ""
        THEN [f EXCEPT !.error = [kind |-> "KeyError", line |-> 229, key |-> passed.raised],
                       !.pc = "aborted"]
        ELSE [f EXCEPT !.conclusion = [printed |-> TRUE,
                                       all_metrics_passed |->
                                           passed.value
                                           /\ RestatedCompliance(f.compliance_data) # "LOW",
                                       compliance_status |->
                                           RestatedCompliance(f.compliance_data)],
                       !.pc = "done"]

\* lines 203-236: the report is printed, then the overall conclusion
ConcludeStep(f) ==
    LET passed == all_metrics_passed(ProcessedOrder(f.processed_metric_data),
                                     f.processed_metric_data)
    IN  IF passed.raised # ""
        THEN [f EXCEPT !.error = [kind |-> "KeyError", line |-> 229, key |-> passed.raised],
                       !.pc = "aborted"]
        ELSE [f EXCEPT !.conclusion = [printed |-> TRUE,
                                       all_metrics_passed |-> passed.value,
                                       compliance_status |->
                                           RestatedCompliance(f.compliance_data)],
                       !.pc = "done"]

\* --------------------------------------------------------------- actions
\* Every run of frame takes the same step on the same metric content.  Run 1
\* gets any compliance content; a further run is there to be compared with, and
\* gets compliance content that does not load.
Config == <<FILE_PATHS, PERFORMANCE_GOALS_DICT>>
NormVars == <<norm_args, norm_results>>

At(label) == {r \in DOMAIN frame : frame[r].pc = label}

ComplianceCheck ==
    /\ At("check") # {}
    /\ \E content \in [DOMAIN frame -> ComplianceFileContents] :
          /\ \A r \in DOMAIN frame \ {1} : content[r] = Unparseable
          /\ frame' = [r \in DOMAIN frame |->
                      IF r \in At("check") THEN CheckStep(frame[r], content[r])
                      ELSE frame[r]]
    /\ UNCHANGED <<Config, NormVars>>

IngestMetric ==
    /\ At("ingest") # {}
    /\ \E content \in MetricFileContents :
          frame' = [r \in DOMAIN frame |->
                      IF r \in At("ingest") THEN IngestStep(frame[r], content)
                      ELSE frame[r]]
    /\ UNCHANGED <<Config, NormVars>>

EvaluateGoal ==
    /\ At("evaluate") # {}
    /\ frame' = [r \in DOMAIN frame |->
                   IF r \in At("evaluate") THEN EvaluateGoalStep(frame[r])
                   ELSE frame[r]]
    /\ UNCHANGED <<Config, NormVars>>

Conclude ==
    /\ At("conclude") # {}
    /\ frame' = [r \in DOMAIN frame |->
                   IF r \in At("conclude") THEN ConcludeStep(frame[r])
                   ELSE frame[r]]
    /\ UNCHANGED <<Config, NormVars>>

\* a direct call of parse_and_clean_raw_data on each of the two records
NormalizeCall ==
    /\ norm_args # <<>>
    /\ norm_results = <<>>
    /\ norm_results' = [i \in DOMAIN norm_args |-> parse_and_clean_raw_data(norm_args[i])]
    /\ UNCHANGED <<frame, Config, norm_args>>

\* ---------------------------------------------------------- specifications
\* one report run of the shipped configuration
Init ==
    /\ frame = [r \in {1} |-> InitFrame]
    /\ FILE_PATHS = ShippedPaths
    /\ PERFORMANCE_GOALS_DICT = ShippedGoals
    /\ norm_args = <<>>
    /\ norm_results = <<>>

Next == ComplianceCheck \/ IngestMetric \/ EvaluateGoal \/ Conclude

Spec == Init /\ [][Next]_vars

\* other configurations: any subset of the shipped metric sources beside the
\* compliance source, any subset of the shipped goals
PathConfigs ==
    {[k \in S \cup {CONFIG_CHECK} |-> ShippedPaths[k]] : S \in SUBSET MetricNames}

GoalConfigs == {[g \in G |-> expected_value(g)] : G \in SUBSET MetricNames}

\* one report run of any of these configurations
InitConfig ==
    /\ frame = [r \in {1} |-> InitFrame]
    /\ FILE_PATHS \in PathConfigs
    /\ PERFORMANCE_GOALS_DICT \in GoalConfigs
    /\ norm_args = <<>>
    /\ norm_results = <<>>

SpecConfig == InitConfig /\ [][Next]_vars

\* two report runs of the shipped configuration on the same metric content,
\* the second with a failed compliance load
InitPair ==
    /\ frame = [r \in {1, 2} |-> InitFrame]
    /\ FILE_PATHS = ShippedPaths
    /\ PERFORMANCE_GOALS_DICT = ShippedGoals
    /\ norm_args = <<>>
    /\ norm_results = <<>>

SpecPair == InitPair /\ [][Next]_vars

\* the records the loader can return: {}, or an object with a timestamp
NormLogs == {NoLogs} \cup {Logs(l) : l \in UNION {[1..n -> LogStatuses] : n \in 0..MaxLogs}}

LoaderResults ==
    {EmptyDict}
    \cup {MetricRecord(c[1], c[2], l, TRUE) : c \in Counts(TotalValues), l \in NormLogs}

\* record raw with its event_logs replaced by l
WithLogs(raw, l) ==
    IF raw = EmptyDict THEN raw
    ELSE MetricRecord(raw["total_test_cases"], raw["successful_cases"], l, TRUE)

\* calls of the normalizer alone, on two records that differ at most in event_logs
InitNorm ==
    /\ frame = EmptyDict
    /\ FILE_PATHS = ShippedPaths
    /\ PERFORMANCE_GOALS_DICT = ShippedGoals
    /\ \E raw \in LoaderResults, l \in NormLogs :
          norm_args = <<raw, WithLogs(raw, l)>>
    /\ norm_results = <<>>

NextNorm == NormalizeCall

SpecNorm == InitNorm /\ [][NextNorm]_vars

\* ----------------------------------------------------------------- claims
Runs == DOMAIN frame

\* the statuses of the rows of a summary table are all PASS
AllRowsPass(rows) == \A i \in DOMAIN rows : rows[i].status = "PASS"

\* run f has left the ingestion loop without an exception
Ingested(f) ==
    \/ f.pc \in {"evaluate", "conclude", "done"}
    \/ f.pc = "aborted" /\ f.error.line \in {179, 229}

\* C1: every status the evaluation loop has produced is PASS exactly when the
\* metric's normalized rate is at least the goal's expected rate: a rate equal
\* to the threshold gives PASS, a rate strictly below it gives FAIL.
C1_StatusIffRateAtLeastGoal ==
    \A r \in Runs : \A i \in DOMAIN frame[r].summary_table_data :
        LET row == frame[r].summary_table_data[i]
            rate == frame[r].processed_metric_data[row.key].rate
            goal == PERFORMANCE_GOALS_DICT[row.key]
        IN  /\ row.key = GoalOrder[i]
            /\ (row.status = "PASS") <=> (rate.num * goal.den >= goal.num * rate.den)
            /\ rate = goal => row.status = "PASS"
            /\ rate.num * goal.den < goal.num * rate.den => row.status = "FAIL"

\* a finished run with one row whose rate equals its threshold (PASS) and one
\* row whose rate is strictly below its threshold (FAIL)
C1_Witness ==
    \E r \in Runs :
        /\ frame[r].pc = "done"
        /\ \E i, j \in DOMAIN frame[r].summary_table_data :
              LET a == frame[r].summary_table_data[i]
                  b == frame[r].summary_table_data[j]
              IN  /\ a.actual = a.expected /\ a.status = "PASS"
                  /\ b.actual.num > 0 /\ b.status = "FAIL"

\* C2: once the evaluation loop has run through every goal, the run reaches an
\* overall verdict without an exception, for any metrics and any goal set (the
\* empty one included), and that verdict is the AND of the per-goal statuses.
C2_OverallIsAndOfStatuses ==
    \A r \in Runs :
        /\ ~(frame[r].pc = "aborted" /\ frame[r].error.line = 229)
        /\ frame[r].pc = "done" =>
              /\ Len(frame[r].summary_table_data) = Len(GoalOrder)
              /\ frame[r].conclusion.all_metrics_passed
                    = AllRowsPass(frame[r].summary_table_data)

\* C3: for a record with total_test_cases > 0 the normalizer returns the
\* reported total and success and the rate success / total, exactly.
C3_ExactRate ==
    norm_results # <<>> =>
        \A i \in DOMAIN norm_args :
            LET raw == norm_args[i]
                res == norm_results[i]
            IN  (raw # EmptyDict /\ raw["total_test_cases"] > 0) =>
                    /\ res.raised = "none"
                    /\ res.value.total = raw["total_test_cases"]
                    /\ res.value.success = raw["successful_cases"]
                    /\ res.value.rate.num * raw["total_test_cases"]
                          = raw["successful_cases"] * res.value.rate.den

\* C4: for a record with total_test_cases <= 0 the normalizer returns total 0,
\* success 0 and rate 0.0 whatever success the record reports, and does not divide.
C4_NonPositiveTotalGivesZero ==
    norm_results # <<>> =>
        \A i \in DOMAIN norm_args :
            LET raw == norm_args[i]
                res == norm_results[i]
            IN  (raw # EmptyDict /\ raw["total_test_cases"] <= 0) =>
                    /\ res.raised = "none"
                    /\ res.value.total = 0
                    /\ res.value.success = 0
                    /\ res.value.rate = [num |-> 0, den |-> 1]
                    /\ ~res.divided

\* the normalizer has returned for a record of total 0 that reports one success
C4_Witness ==
    /\ norm_results # <<>>
    /\ norm_args[1] # EmptyDict
    /\ norm_args[1]["total_test_cases"] = 0
    /\ norm_args[1]["successful_cases"] > 0
    /\ norm_results[1].raised = "none"

FirstMissing(processed) ==
    LET missing == {i \in DOMAIN GoalOrder : GoalOrder[i] \notin DOMAIN processed}
    IN  IF missing = {} THEN 0
        ELSE CHOOSE i \in missing : \A j \in missing : i <= j

\* C6: when a goal names a metric with no entry in the normalized metrics, the
\* run aborts with a KeyError at that goal's lookup: no row is made for the goal
\* or any later one, and no overall verdict is reached.
C6_MissingMetricAborts ==
    \A r \in Runs :
        LET f == frame[r]
            k == FirstMissing(f.processed_metric_data)
        IN  (Ingested(f) /\ k > 0) =>
                /\ f.pc \in {"evaluate", "aborted"}
                /\ ~f.conclusion.printed
                /\ Len(f.summary_table_data) < k
                /\ f.pc = "aborted" =>
                      f.error = [kind |-> "KeyError", line |-> 179, key |-> GoalOrder[k]]

\* a run aborted at the lookup of a goal after an earlier goal was evaluated
C6_Witness ==
    \E r \in Runs :
        /\ frame[r].pc = "aborted"
        /\ frame[r].error.line = 179
        /\ frame[r].error.key \notin DOMAIN frame[r].processed_metric_data
        /\ Len(frame[r].summary_table_data) > 0

\* C7: the compliance status the overall conclusion restates is the
\* compliance_status of the compliance record fetched by the dependency check
\* of the same run.
C7_ConclusionRestatesFetchedStatus ==
    \A r \in Runs :
        (frame[r].pc = "done" /\ frame[r].served # "") =>
            frame[r].conclusion.compliance_status = frame[r].served

\* C8: two runs on the same metric records produce the same per-metric
\* verdicts and the same overall verdict, whatever compliance record each got:
\* a run with any compliance record (any status, any critical flags, loaded or
\* not) agrees at every step with the run whose compliance load failed, and so
\* any two runs agree with each other.
C8_ComplianceDoesNotGate ==
    \A r1, r2 \in Runs :
        /\ frame[r1].pc = frame[r2].pc
        /\ frame[r1].processed_metric_data = frame[r2].processed_metric_data
        /\ frame[r1].summary_table_data = frame[r2].summary_table_data
        /\ frame[r1].conclusion.printed = frame[r2].conclusion.printed
        /\ frame[r1].conclusion.all_metrics_passed = frame[r2].conclusion.all_metrics_passed

\* two finished runs, every metric passed, one that holds a LOW compliance
\* record with critical flags and one whose compliance load failed
C8_Witness ==
    /\ Runs = {1, 2}
    /\ frame[1].pc = "done" /\ frame[2].pc = "done"
    /\ frame[2].compliance_data = EmptyDict
    /\ frame[1].compliance_data # EmptyDict
    /\ frame[1].compliance_data["compliance_status"] = "LOW"
    /\ frame[1].compliance_data["critical_flags"] > 0
    /\ frame[1].conclusion.all_metrics_passed
    /\ frame[2].conclusion.all_metrics_passed

\* C9: two records that agree on total_test_cases and successful_cases and
\* differ only in event_logs get the same outcome and the same normalized metric.
C9_EventLogsDoNotCount ==
    norm_results # <<>> =>
        LET a == norm_args[1]
            b == norm_args[2]
            same == \/ a = EmptyDict /\ b = EmptyDict
                    \/ /\ a # EmptyDict /\ b # EmptyDict
                       /\ a["total_test_cases"] = b["total_test_cases"]
                       /\ a["successful_cases"] = b["successful_cases"]
        IN  same => /\ norm_results[1].raised = norm_results[2].raised
                    /\ norm_results[1].value = norm_results[2].value

\* the normalizer has returned for a record without event_logs and for one of
\* the same counts, total > 0, with as many entries as allowed, a SKIP among them
C9_Witness ==
    /\ norm_results # <<>>
    /\ norm_args[1] # EmptyDict
    /\ norm_args[1]["total_test_cases"] > 0
    /\ "event_logs" \notin DOMAIN norm_args[1]
    /\ "event_logs" \in DOMAIN norm_args[2]
    /\ Len(norm_args[2]["event_logs"]) = MaxLogs
    /\ skipped_logs(norm_args[2]) > 0
    /\ norm_results[1].raised = "none"
    /\ norm_results[2].skipped > norm_results[1].skipped

\* C10: the normalizer returns, and never raises, for every record the loader
\* can return: {} or a record of non-negative total and any integer success.
C10_NormalizerIsTotal ==
    norm_results # <<>> =>
        \A i \in DOMAIN norm_args :
            (norm_args[i] = EmptyDict \/ norm_args[i]["total_test_cases"] >= 0) =>
                norm_results[i].raised = "none"

====
